---- MODULE Spec2Model ----
(***************************************************************************)
(* Chun-MediaConv: the conversion scheduler of MainWindow                  *)
(* (src/src/ui/main_window.py) together with the job executor              *)
(* ConversionWorker (src/src/core/conversion_engine.py), the engine's job  *)
(* factory and the per-job working directory of TempFileManager            *)
(* (src/src/utils/temp_manager.py).                                        *)
(*                                                                         *)
(* The coordinating (GUI) thread runs one handler at a time; a handler     *)
(* that blocks in QThread.wait() keeps the thread busy (gui.pc # "idle")   *)
(* until the awaited worker's run() has returned.  Worker signals are      *)
(* queued connections: they are appended to the GUI thread's event queue   *)
(* and delivered in FIFO order.  Each worker runs run() on its own thread, *)
(* next to its child encoder process.                                      *)
(***************************************************************************)
EXTENDS Integers, Sequences, FiniteSets, TLC

\* ------------------------------------------------------------------ bounds
MaxJobs == 2          \* files ever added to the queue (Spec)
MaxBatch == 3         \* files ever added to the queue (BatchSpec)
MaxLines == 2         \* output lines the encoder writes (ExecSpec)
MaxLinesLong == 203   \* output lines the encoder writes (LongSpec)
MaxPending == 1       \* signals waiting in the event queue of the idle GUI thread

\* ------------------------------------------------------- program constants
RingSize == 200       \* output_lines is cut to the last 200 lines
TailSize == 20        \* output_lines[-20:]

Min(a, b) == IF a < b THEN a ELSE b
Max(a, b) == IF a > b THEN a ELSE b

Paths == {"a", "b"}
Workers == 1 .. Max(MaxJobs, MaxBatch)

VARIABLES
    max_parallel_conversions, \* config.max_parallel_conversions
    ffmpeg_path,              \* config.ffmpeg_path ("" when no binary was found)
    hw_accel,                 \* environment: detection finds an acceleration method
    hw_detector,              \* ConversionEngine.hw_detector: "None" or "set"
    detect_timer,             \* QTimer.singleShot(100, _detect_hardware) pending
    conversion_queue,         \* MainWindow.conversion_queue
    active_conversions,       \* MainWindow.active_conversions, in insertion order
    progress_values,          \* MainWindow.progress_values
    start_btn,                \* the Start button is enabled
    stop_btn,                 \* the Stop button is enabled
    progress_bar,             \* value shown by the progress bar
    gui,                      \* what the GUI thread is doing
    events,                   \* queued signals posted to the GUI thread
    last,                     \* the handler the GUI thread ran last, and its effects
    added,                    \* number of files added so far
    worker,                   \* the ConversionWorker objects and their child processes
    temp_dirs,                \* the job_ directories that exist in the session dir
    profile,                  \* the environment of the run, fixed by Init
    synth                     \* a command synthesis: its inputs and its results

vars == << max_parallel_conversions, ffmpeg_path, hw_accel, hw_detector,
           detect_timer, conversion_queue, active_conversions, progress_values,
           start_btn, stop_btn, progress_bar, gui, events, last, added, worker,
           temp_dirs, profile, synth >>

envVars == << max_parallel_conversions, ffmpeg_path, hw_accel, profile, synth >>
workerVars == << worker, temp_dirs >>
guiVars == << hw_detector, detect_timer, conversion_queue, active_conversions,
              progress_values, start_btn, stop_btn, progress_bar, gui, last, added >>
programVars == << max_parallel_conversions, ffmpeg_path, hw_accel, profile,
                  workerVars, guiVars, events >>

\* ---------------------------------------------------------------- helpers
Range(s) == {s[i] : i \in 1 .. Len(s)}

\* s[-n:] of Python
LastN(s, n) == IF Len(s) <= n THEN s ELSE SubSeq(s, Len(s) - n + 1, Len(s))

\* A signal message: plain text, or the exit diagnostic (code and tail).
Msg(t) == [text |-> t, code |-> 0, tail |-> << >>]
CancelledMsg == Msg("Conversion cancelled")

\* ------------------------------------------------- what the environment does
\* Spec ("pool") runs up to MaxJobs jobs whose probe or encoder may fail;
\* ExecSpec ("exec") runs one job in which every step may fail; LongSpec
\* ("long") runs one job whose encoder writes more lines than the buffer keeps;
\* BatchSpec ("batch") runs up to MaxBatch jobs that were all queued before the
\* first of them was started, with encoders that write no line and end with
\* success unless they are stopped.
JobCap == CASE profile = "pool" -> MaxJobs
            [] profile = "batch" -> MaxBatch
            [] OTHER -> 1
\* The user adds any file at any time, or (batch) the files of one selection,
\* the same file twice and another one, before the first start.
Batch == << "a", "a", "b" >>
CanAdd(file, n, started) ==
    profile # "batch" \/ (started = 0 /\ n < Len(Batch) /\ file = Batch[n + 1])
LineCap == CASE profile = "pool" -> 1
             [] profile = "batch" -> 0
             [] profile = "exec" -> MaxLines
             [] OTHER -> MaxLinesLong
StartOutcomes == IF profile = "exec" THEN {"ok", "mkdir failed"} ELSE {"ok"}
\* What ffprobe does: it succeeds and prints the streams; it fails, is missing
\* or runs into the 30 second timeout with nothing usable on stdout; or it
\* fails and still prints the frame of its JSON writer, an empty object.
ProbeResults ==
    IF profile = "exec"
    THEN {"streams", "no output", "timeout", "empty object"}
    ELSE IF profile = "batch" THEN {"streams"}
    ELSE {"streams", "no output"}
\* What follows a probe that returned an info: the build and the launch.
AnalyzeOutcomes ==
    IF profile = "exec"
    THEN {"ok", "build failed", "launch failed", "launch failed, no text"}
    ELSE {"ok"}
ProbedDurations == IF profile = "exec" THEN {0, 10} ELSE {10}
\* The exit codes of an encoder that ends on its own.
ExitCodes == IF profile = "batch" THEN {0} ELSE {0, 1}
\* The exit codes after terminate() and wait(timeout=5): the signal's (-15),
\* the kill's after the timeout (-9), or the encoder's own when it had ended.
StopCodes ==
    CASE profile = "pool" -> {-15, 0}
      [] profile = "batch" -> {-15}
      [] OTHER -> {-15, -9, 0, 1}
\* The n-th line the encoder writes.
LineChoices(n) ==
    CASE profile \in {"pool", "batch"} -> {[n |-> n, kind |-> "text", t |-> 0]}
      [] profile = "exec" ->
           {[n |-> n, kind |-> k, t |-> 0] : k \in {"blank", "text"}}
           \cup {[n |-> n, kind |-> "time", t |-> t] : t \in {5, 20}}
      [] OTHER -> {[n |-> n, kind |-> IF n % 7 = 0 THEN "blank" ELSE "text", t |-> 0]}

\* ------------------------------------------------------------ the worker
NoWorker ==
    [pc |-> "none", input |-> "", should_stop |-> FALSE, temp_dir |-> FALSE,
     duration |-> 0, process |-> "None", returncode |-> 0, lines |-> 0,
     output_lines |-> << >>, produced |-> << >>,
     fin |-> 0, err |-> 0, late |-> FALSE, success |-> FALSE, message |-> Msg(""),
     cancelled |-> FALSE, stop_at |-> "", current_time |-> 0, reports |-> {},
     probe |-> ""]

\* ConversionWorker.__init__
NewWorker(input_file) == [NoWorker EXCEPT !.pc = "created", !.input = input_file]

Progress(w, v) == [w |-> w, sig |-> "progress", ok |-> FALSE, val |-> v, msg |-> Msg("")]
Error(w, m) == [w |-> w, sig |-> "error", ok |-> FALSE, val |-> 0, msg |-> m]
Finished(w, ok, m) == [w |-> w, sig |-> "finished", ok |-> ok, val |-> 0, msg |-> m]

\* What a worker has emitted so far: the number of finished and error signals,
\* whether anything was emitted after a finished signal, the outcome its
\* finished signal carried, and each progress value with the state of the
\* encoder process and the time stamp last read when it was emitted.
RECURSIVE Record(_, _)
Record(r, evs) ==
    IF evs = << >> THEN r
    ELSE LET e == Head(evs)
             r1 == [r EXCEPT !.late = @ \/ (r.fin > 0),
                             !.fin = IF e.sig = "finished" THEN Min(@ + 1, 2) ELSE @,
                             !.err = IF e.sig = "error" THEN Min(@ + 1, 2) ELSE @,
                             !.success = IF e.sig = "finished" THEN e.ok ELSE @,
                             !.message = IF e.sig = "finished" THEN e.msg ELSE @,
                             !.reports = IF e.sig = "progress"
                                         THEN @ \cup {[val |-> e.val, process |-> r.process,
                                                       returncode |-> r.returncode,
                                                       current_time |-> r.current_time]}
                                         ELSE @]
         IN Record(r1, Tail(evs))

\* The bound on the GUI thread's event queue: a worker posts only while fewer
\* than MaxPending signals wait there, or while the GUI thread is blocked on a
\* worker (and so cannot take signals off the queue).
CanPost == Len(events) < MaxPending \/ gui.pc # "idle"

\* AnalysisFailed without its return: run() goes on with no input_info, and
\* the except clause emits a second time.
AnalysisFailedNoReturn(w) ==
    << Error(w, Msg("Failed to analyze input file")),
       Finished(w, FALSE, Msg("Analysis failed")), Progress(w, 5),
       Error(w, Msg("Conversion error")), Finished(w, FALSE, Msg("NoneType")) >>

\* run(), lines 70-73: the probe returned nothing.
AnalysisFailed(w) ==
    << Error(w, Msg("Failed to analyze input file")),
       Finished(w, FALSE, Msg("Analysis failed")) >>

\* run(), lines 90-92: the except clause.
OnException(w, text) ==
    << Error(w, Msg("Conversion error")), Finished(w, FALSE, Msg(text)) >>

\* run(), lines 82-88: what is emitted for the result of _execute_conversion.
RunResult(w, success, result_message) ==
    IF success
    THEN << Progress(w, 100), Finished(w, TRUE, Msg("output_file")) >>
    ELSE (IF result_message.text # "" /\ result_message # CancelledMsg
          THEN << Error(w, result_message) >> ELSE << >>)
         \o << Finished(w, FALSE, IF result_message.text # ""
                                  THEN result_message ELSE Msg("Conversion failed")) >>

\* ExitMessage with the whole buffer instead of its last lines.
ExitMessageWholeBuffer(returncode, output_lines) ==
    [text |-> "ffmpeg exited with code", code |-> returncode, tail |-> output_lines]

\* _execute_conversion, lines 584-588: exit code, then the last lines.
ExitMessage(returncode, output_lines) ==
    [text |-> "ffmpeg exited with code", code |-> returncode,
     tail |-> LastN(output_lines, TailSize)]

\* _execute_conversion, lines 578-588: the result once the process has ended.
ExitResult(cancelled, returncode, output_lines) ==
    IF cancelled THEN [success |-> FALSE, message |-> CancelledMsg]
    ELSE IF returncode = 0 THEN [success |-> TRUE, message |-> Msg("")]
    ELSE [success |-> FALSE, message |-> ExitMessage(returncode, output_lines)]

\* _execute_conversion, lines 559-562: the bounded buffer of non-blank lines.
Buffer(output_lines, line) ==
    IF line.kind = "blank" THEN output_lines
    ELSE LET b == Append(output_lines, line.n)
         IN IF Len(b) > RingSize THEN Tail(b) ELSE b

\* LineProgress without the cap.
LineProgressNoCap(current_time, duration) == (current_time * 90) \div duration + 10

\* _execute_conversion, lines 569-573: progress of a time= line.
LineProgress(current_time, duration) ==
    Min((current_time * 90) \div duration + 10, 99)

\* ConversionWorker.stop: the flag, then terminate, a wait of 5 seconds and a
\* kill when the child did not exit in time; returncode is what the process
\* ends with.  stop_at notes where run() was when the flag was first set.
StopWorker(r, returncode) ==
    LET r1 == [r EXCEPT !.should_stop = TRUE,
                        !.stop_at = IF r.should_stop THEN @
                                    ELSE IF r.process # "running" THEN r.pc
                                    ELSE IF returncode \in ExitCodes THEN "exited"
                                    ELSE "running"]
    IN IF r.process = "running"
       THEN [r1 EXCEPT !.process = "exited", !.returncode = returncode]
       ELSE r1

\* A terminal emission; run() goes on to the finally clause.
Leave(w, r, evs) ==
    /\ worker' = [worker EXCEPT ![w] = Record([r EXCEPT !.pc = "finally"], evs)]
    /\ events' = events \o evs

\* run(), lines 61-67: the working directory, then the first progress signal.
RunStart(w) ==
    /\ worker[w].pc = "created"
    /\ CanPost
    /\ \E outcome \in StartOutcomes :
          IF outcome = "ok"
          THEN /\ worker' = [worker EXCEPT ![w] =
                      Record([@ EXCEPT !.pc = "analyzing", !.temp_dir = TRUE],
                             << Progress(w, 0) >>)]
               /\ events' = Append(events, Progress(w, 0))
               /\ temp_dirs' = temp_dirs \cup {w}
          ELSE /\ Leave(w, worker[w], OnException(w, outcome))
               /\ UNCHANGED temp_dirs
    /\ UNCHANGED << envVars, guiVars >>

\* ConversionWorker._get_input_info: subprocess.run and json.loads inside a
\* try whose except returns None; the exit code of ffprobe is not looked at,
\* and every key of the parsed object has a default.
GetInputInfo(probe, duration) ==
    CASE probe = "streams" -> [none |-> FALSE, duration |-> duration]
      [] probe = "empty object" -> [none |-> FALSE, duration |-> 0]
      [] OTHER -> [none |-> TRUE, duration |-> 0]

\* run(), lines 68-80 and _execute_conversion, lines 541-551: the probe, the
\* command and the launch of the encoder.
RunAnalyze(w) ==
    /\ worker[w].pc = "analyzing"
    /\ CanPost
    /\ \E probe \in ProbeResults, d \in ProbedDurations, outcome \in AnalyzeOutcomes :
          LET input_info == GetInputInfo(probe, d)
              r == [worker[w] EXCEPT !.probe = probe]
          IN CASE input_info.none ->
                 Leave(w, r, AnalysisFailed(w))
            [] outcome = "build failed" ->
                 Leave(w, r, << Progress(w, 5) >> \o OnException(w, outcome))
            [] outcome = "launch failed" ->
                 Leave(w, r, << Progress(w, 5), Progress(w, 10) >>
                             \o RunResult(w, FALSE, Msg(outcome)))
            [] outcome = "launch failed, no text" ->
                 Leave(w, r, << Progress(w, 5), Progress(w, 10) >>
                             \o RunResult(w, FALSE, Msg("")))
            [] OTHER ->
                 /\ worker' = [worker EXCEPT ![w] =
                         [Record(r, << Progress(w, 5), Progress(w, 10) >>)
                             EXCEPT !.pc = "reading", !.duration = input_info.duration,
                                    !.process = "running"]]
                 /\ events' = events \o << Progress(w, 5), Progress(w, 10) >>
    /\ UNCHANGED << envVars, guiVars, temp_dirs >>

\* _execute_conversion, lines 557-574 (and 576-579 when the flag is seen):
\* the encoder has written a line and the loop reads it.  After a stop the
\* line is one the encoder wrote before it ended.
ReadLine(w) ==
    LET r == worker[w]
    IN /\ r.pc = "reading"
       /\ r.lines < LineCap
       /\ CanPost
       /\ \E line \in LineChoices(r.lines + 1) :
            LET r1 == [r EXCEPT !.lines = @ + 1,
                                !.output_lines = Buffer(@, line),
                                !.current_time = IF line.kind = "time" /\ ~r.should_stop
                                                 THEN line.t ELSE @,
                                !.produced = IF line.kind = "blank" THEN @
                                             ELSE Append(@, line.n)]
            IN IF r.should_stop
               THEN \E code \in StopCodes \ ExitCodes :
                      LET r2 == [StopWorker(r1, code) EXCEPT !.cancelled = TRUE]
                          res == ExitResult(TRUE, r2.returncode, r2.output_lines)
                      IN Leave(w, r2, RunResult(w, res.success, res.message))
               ELSE IF line.kind = "time" /\ r.duration > 0
                    THEN LET p == Progress(w, LineProgress(line.t, r.duration))
                         IN /\ worker' = [worker EXCEPT ![w] = Record(r1, << p >>)]
                            /\ events' = Append(events, p)
                    ELSE /\ worker' = [worker EXCEPT ![w] = r1]
                         /\ UNCHANGED events
       /\ UNCHANGED << envVars, guiVars, temp_dirs >>

\* _execute_conversion, lines 576-588: the output ends (the encoder exits on
\* its own, or has been stopped) and the exit code decides.
ReadEOF(w) ==
    LET r == worker[w]
    IN /\ r.pc = "reading"
       /\ CanPost
       /\ \E code \in (IF r.process = "running" THEN ExitCodes ELSE {r.returncode}) :
            LET r1 == [r EXCEPT !.process = "exited", !.returncode = code]
                res == ExitResult(FALSE, code, r.output_lines)
            IN Leave(w, r1, RunResult(w, res.success, res.message))
       /\ UNCHANGED << envVars, guiVars, temp_dirs >>

\* CleanupFile reached only at the end of the try block, not in a finally.
CleanupFileAfterResult(dirs, w) ==
    IF worker[w].process = "None" THEN dirs ELSE dirs \ {w}

\* TempFileManager.cleanup_file
CleanupFile(dirs, w) == dirs \ {w}

\* run(), lines 93-95: the finally clause; run() returns.
RunFinally(w) ==
    /\ worker[w].pc = "finally"
    /\ worker' = [worker EXCEPT ![w].pc = "returned"]
    /\ temp_dirs' = IF worker[w].temp_dir THEN CleanupFile(temp_dirs, w) ELSE temp_dirs
    /\ UNCHANGED << envVars, guiVars, events >>

\* ------------------------------------------------------- the GUI thread
Idle == [pc |-> "idle", thr |-> 0, rest |-> << >>, ok |-> FALSE, text |-> ""]
NoLast ==
    [op |-> "none", w |-> 0, ok |-> FALSE, text |-> "", removed |-> {},
     stopped |-> {}, queue |-> << >>, launched |-> {}, rejected |-> 0,
     complete |-> FALSE]

\* active_conversions is a dict: entries keep their insertion order, an
\* assignment to a key that is present replaces its value in place.
Entry(k, w) == [key |-> k, w |-> w]
DictSet(d, k, w) ==
    IF \E i \in 1 .. Len(d) : d[i].key = k
    THEN [i \in 1 .. Len(d) |-> IF d[i].key = k THEN Entry(k, w) ELSE d[i]]
    ELSE Append(d, Entry(k, w))
DictDel(d, k) == SelectSeq(d, LAMBDA e : e.key # k)
ActiveWorkers(d) == {d[i].w : i \in 1 .. Len(d)}
KeyOf(d, w) == (CHOOSE e \in Range(d) : e.w = w).key

\* The pop left out: the entry stays.
PopKeyKept(pv, k) == pv

\* progress_values.pop(key, None)
PopKey(pv, k) == [x \in (DOMAIN pv) \ {k} |-> pv[x]]

\* fill_conversion_slots, line 1009
MaxParallel == Max(1, max_parallel_conversions)

\* SlotFree off by one.
SlotFreeOffByOne(active, max_parallel) == Len(active) <= max_parallel

\* fill_conversion_slots, line 1010: the second half of the loop condition
SlotFree(active, max_parallel) == Len(active) < max_parallel

\* ConversionEngine.create_conversion_job with initialize_hardware and
\* HardwareDetector.detect: whether a worker is returned, and hw_detector.
CreateConversionJob(hw) ==
    IF hw = "None"
    THEN IF ffmpeg_path = ""
         THEN [ok |-> FALSE, hw |-> "None"]
         ELSE [ok |-> hw_accel, hw |-> "set"]
    ELSE [ok |-> TRUE, hw |-> hw]

\* The scheduler's fields a handler works on.
Sched(act) ==
    [q |-> conversion_queue, act |-> act, hw |-> hw_detector,
     n |-> Cardinality({w \in Workers : worker[w].pc # "none"}),
     created |-> << >>, rejected |-> 0, complete |-> FALSE,
     start_btn |-> start_btn, stop_btn |-> stop_btn, progress_bar |-> progress_bar]

\* QueuePop taking the newest entry.
QueuePopLast(q) == [input_file |-> q[Len(q)], rest |-> SubSeq(q, 1, Len(q) - 1)]

\* process_next_in_queue, line 953: conversion_queue.pop(0)
QueuePop(q) == [input_file |-> Head(q), rest |-> Tail(q)]

\* MainWindow.process_next_in_queue
ProcessNextInQueue(s) ==
    IF s.q = << >>
    THEN IF s.act = << >>
         THEN [s EXCEPT !.start_btn = TRUE, !.stop_btn = FALSE,
                        !.progress_bar = 0, !.complete = TRUE]
         ELSE s
    ELSE LET input_file == QueuePop(s.q).input_file
             s1 == [s EXCEPT !.q = QueuePop(s.q).rest]
             job == CreateConversionJob(s.hw)
         IN IF ~job.ok
            THEN [s1 EXCEPT !.hw = job.hw, !.rejected = @ + 1]
            ELSE [s1 EXCEPT !.hw = job.hw, !.n = @ + 1,
                            !.act = DictSet(@, input_file, s.n + 1),
                            !.created = Append(@, Entry(input_file, s.n + 1))]

\* MainWindow.fill_conversion_slots
RECURSIVE FillConversionSlots(_)
FillConversionSlots(s) ==
    IF s.q # << >> /\ SlotFree(s.act, MaxParallel)
    THEN FillConversionSlots(ProcessNextInQueue(s))
    ELSE s

\* The handler's result written back; the threads of the new workers start.
Apply(s, wk) ==
    /\ conversion_queue' = s.q
    /\ active_conversions' = s.act
    /\ hw_detector' = s.hw
    /\ start_btn' = s.start_btn
    /\ stop_btn' = s.stop_btn
    /\ progress_bar' = s.progress_bar
    /\ worker' = [w \in Workers |->
                    IF \E e \in Range(s.created) : e.w = w
                    THEN NewWorker(KeyOf(s.created, w))
                    ELSE wk[w]]

\* MainWindow.add_files, one selected file
AddFiles(file) ==
    /\ gui.pc = "idle"
    /\ added < JobCap
    /\ CanAdd(file, added, Cardinality({w \in Workers : worker[w].pc # "none"}))
    /\ conversion_queue' = Append(conversion_queue, file)
    /\ added' = added + 1
    /\ last' = [NoLast EXCEPT !.op = "add"]
    /\ UNCHANGED << envVars, workerVars, events, hw_detector, detect_timer,
                    active_conversions, progress_values, start_btn, stop_btn,
                    progress_bar, gui >>

\* MainWindow.clear_queue
ClearQueue ==
    /\ gui.pc = "idle"
    /\ conversion_queue # << >>
    /\ conversion_queue' = << >>
    /\ last' = [NoLast EXCEPT !.op = "clear"]
    /\ UNCHANGED << envVars, workerVars, events, hw_detector, detect_timer,
                    active_conversions, progress_values, start_btn, stop_btn,
                    progress_bar, gui, added >>

\* MainWindow._detect_hardware, run once by the timer of initialize_hardware
DetectHardware ==
    /\ gui.pc = "idle"
    /\ detect_timer
    /\ detect_timer' = FALSE
    /\ hw_detector' = IF ffmpeg_path = "" THEN hw_detector ELSE "set"
    /\ last' = [NoLast EXCEPT !.op = "detect"]
    /\ UNCHANGED << envVars, workerVars, events, conversion_queue,
                    active_conversions, progress_values, start_btn, stop_btn,
                    progress_bar, gui, added >>

\* MainWindow.start_conversion (the Start button, with a valid output directory)
StartConversion ==
    /\ gui.pc = "idle"
    /\ start_btn
    /\ conversion_queue # << >>
    /\ LET s == FillConversionSlots([Sched(active_conversions) EXCEPT
                                        !.start_btn = FALSE, !.stop_btn = TRUE])
       IN /\ Apply(s, worker)
          /\ last' = [NoLast EXCEPT !.op = "start", !.queue = conversion_queue,
                                    !.launched = ActiveWorkers(s.created),
                                    !.rejected = s.rejected, !.complete = s.complete]
    /\ UNCHANGED << envVars, temp_dirs, events, detect_timer, progress_values,
                    gui, added >>

EmptyDict == [k \in {} |-> 0]
SetKey(pv, k, v) == [x \in (DOMAIN pv) \cup {k} |-> IF x = k THEN v ELSE pv[x]]

RECURSIVE SumValues(_, _)
SumValues(pv, keys) ==
    IF keys = {} THEN 0
    ELSE LET k == CHOOSE x \in keys : TRUE
         IN pv[k] + SumValues(pv, keys \ {k})

\* Average over the active jobs instead of over the recorded values.
AverageOverActive(pv) ==
    SumValues(pv, DOMAIN pv) \div Max(1, Len(active_conversions))

\* on_conversion_progress, lines 1021-1023: the value put on the progress bar
Average(pv) == SumValues(pv, DOMAIN pv) \div Max(1, Cardinality(DOMAIN pv))

\* MainWindow.on_conversion_progress
OnConversionProgress ==
    /\ gui.pc = "idle"
    /\ events # << >>
    /\ Head(events).sig = "progress"
    /\ LET e == Head(events)
           pv == IF e.w \in ActiveWorkers(active_conversions)
                 THEN SetKey(progress_values, KeyOf(active_conversions, e.w), e.val)
                 ELSE progress_values
       IN /\ progress_values' = pv
          /\ progress_bar' = IF DOMAIN pv # {} THEN Average(pv) ELSE progress_bar
          /\ last' = [NoLast EXCEPT !.op = "progress", !.w = e.w]
    /\ events' = Tail(events)
    /\ UNCHANGED << envVars, workerVars, hw_detector, detect_timer, conversion_queue,
                    active_conversions, start_btn, stop_btn, gui, added >>

\* MainWindow.on_conversion_error
OnConversionError ==
    /\ gui.pc = "idle"
    /\ events # << >>
    /\ Head(events).sig = "error"
    /\ events' = Tail(events)
    /\ last' = [NoLast EXCEPT !.op = "error", !.w = Head(events).w]
    /\ UNCHANGED << envVars, workerVars, hw_detector, detect_timer, conversion_queue,
                    active_conversions, progress_values, start_btn, stop_btn,
                    progress_bar, gui, added >>

\* on_conversion_finished, line 1041: the fallback is taken
UseFallback(found, active) == ~found /\ active # << >>

\* on_conversion_finished, lines 1060-1067: the queue is advanced
AdvanceQueue(success, message) == success

\* on_conversion_finished, lines 1054-1072: after the thread has been waited for
FinishedTail(act, success, message, l0) ==
    LET s == IF AdvanceQueue(success, message)
             THEN FillConversionSlots(Sched(act)) ELSE Sched(act)
    IN /\ Apply(s, worker)
       /\ gui' = Idle
       /\ last' = [l0 EXCEPT !.queue = conversion_queue,
                             !.launched = ActiveWorkers(s.created),
                             !.rejected = s.rejected, !.complete = s.complete]

\* MainWindow.on_conversion_finished, up to thread.wait()
OnConversionFinished ==
    /\ gui.pc = "idle"
    /\ events # << >>
    /\ Head(events).sig = "finished"
    /\ LET e == Head(events)
           found == e.w \in ActiveWorkers(active_conversions)
           key == KeyOf(active_conversions, e.w)
           act1 == IF found THEN DictDel(active_conversions, key) ELSE active_conversions
           pv1 == IF found THEN PopKey(progress_values, key) ELSE progress_values
           fallback == UseFallback(found, act1)
           popped == act1[Len(act1)]
           act2 == IF fallback THEN SubSeq(act1, 1, Len(act1) - 1) ELSE act1
           pv2 == IF fallback THEN PopKey(pv1, popped.key) ELSE pv1
           thread == IF found THEN e.w ELSE IF fallback THEN popped.w ELSE 0
           l0 == [NoLast EXCEPT !.op = "finished", !.w = e.w, !.ok = e.ok,
                                !.text = e.msg.text,
                                !.removed = ActiveWorkers(active_conversions)
                                            \ ActiveWorkers(act2)]
       IN /\ events' = Tail(events)
          /\ progress_values' = pv2
          /\ IF thread = 0 \/ worker[thread].pc = "returned"
             THEN FinishedTail(act2, e.ok, e.msg, l0)
             ELSE /\ gui' = [Idle EXCEPT !.pc = "finished_wait", !.thr = thread,
                                         !.ok = e.ok, !.text = e.msg.text]
                  /\ last' = l0
                  /\ active_conversions' = act2
                  /\ UNCHANGED << worker, hw_detector, conversion_queue, start_btn,
                                  stop_btn, progress_bar >>
    /\ UNCHANGED << envVars, temp_dirs, detect_timer, added >>

\* MainWindow.on_conversion_finished, from the return of thread.wait()
OnFinishedResume ==
    /\ gui.pc = "finished_wait"
    /\ worker[gui.thr].pc = "returned"
    /\ FinishedTail(active_conversions, gui.ok, Msg(gui.text), last)
    /\ UNCHANGED << envVars, temp_dirs, events, detect_timer, progress_values, added >>

\* stop_conversion, lines 1078-1086: the loop over the active jobs, up to the
\* first thread.wait() that has to wait
RECURSIVE StopLoop(_, _, _)
StopLoop(rest, wk, returncode) ==
    IF rest = << >> THEN [wk |-> wk, thr |-> 0, rest |-> << >>]
    ELSE LET w == Head(rest)
             wk1 == [wk EXCEPT ![w] = StopWorker(@, returncode)]
         IN IF wk1[w].pc = "returned"
            THEN StopLoop(Tail(rest), wk1, returncode)
            ELSE [wk |-> wk1, thr |-> w, rest |-> Tail(rest)]

\* StopDone without the two clear() calls.
StopDoneNoClear ==
    /\ UNCHANGED << active_conversions, progress_values >>
    /\ start_btn' = TRUE
    /\ stop_btn' = FALSE
    /\ gui' = Idle

\* stop_conversion, lines 1088-1091
StopDone ==
    /\ active_conversions' = << >>
    /\ progress_values' = EmptyDict
    /\ start_btn' = TRUE
    /\ stop_btn' = FALSE
    /\ gui' = Idle

StopStep(rest) ==
    \E returncode \in StopCodes :
        LET r == StopLoop(rest, worker, returncode)
        IN /\ worker' = r.wk
           /\ IF r.thr = 0
              THEN StopDone
              ELSE /\ gui' = [Idle EXCEPT !.pc = "stop_wait", !.thr = r.thr, !.rest = r.rest]
                   /\ UNCHANGED << active_conversions, progress_values, start_btn, stop_btn >>

\* MainWindow.stop_conversion (the Stop button)
StopConversion ==
    /\ gui.pc = "idle"
    /\ stop_btn
    /\ StopStep([i \in 1 .. Len(active_conversions) |-> active_conversions[i].w])
    /\ last' = [NoLast EXCEPT !.op = "stop", !.stopped = ActiveWorkers(active_conversions),
                              !.queue = conversion_queue]
    /\ UNCHANGED << envVars, temp_dirs, events, hw_detector, detect_timer,
                    conversion_queue, progress_bar, added >>

\* MainWindow.stop_conversion, from the return of a thread.wait()
StopResume ==
    /\ gui.pc = "stop_wait"
    /\ worker[gui.thr].pc = "returned"
    /\ StopStep(gui.rest)
    /\ UNCHANGED << envVars, temp_dirs, events, hw_detector, detect_timer,
                    conversion_queue, progress_bar, added, last >>

\* ------------------------------------------------------ command synthesis
\* FormatCompatibility._initialize_formats: type and codec lists per container.
Fmt(type, video, audio) ==
    [type |-> type, supported_video_codecs |-> video, supported_audio_codecs |-> audio]

Formats ==
    [mp4 |-> Fmt("video", << "h264", "h265" >>, << "aac", "alac" >>),
     mkv |-> Fmt("video", << "h264", "h265", "vp9", "av1", "mpeg4", "ffv1" >>,
                 << "aac", "mp3", "ac3", "flac", "opus", "vorbis", "dts" >>),
     webm |-> Fmt("video", << "vp8", "vp9", "av1" >>, << "vorbis", "opus" >>),
     avi |-> Fmt("video", << "mpeg4", "mjpeg" >>, << "mp3", "ac3", "pcm" >>),
     mov |-> Fmt("video", << "h264", "h265", "prores" >>, << "aac", "alac", "pcm" >>),
     flv |-> Fmt("video", << "h264", "flv1" >>, << "aac", "mp3" >>),
     mp3 |-> Fmt("audio", << >>, << "mp3" >>),
     aac |-> Fmt("audio", << >>, << "aac" >>),
     flac |-> Fmt("audio", << >>, << "flac" >>),
     wav |-> Fmt("audio", << >>, << "pcm" >>),
     ogg |-> Fmt("audio", << >>, << "vorbis", "opus" >>),
     opus |-> Fmt("audio", << >>, << "opus" >>),
     m4a |-> Fmt("audio", << >>, << "aac", "alac" >>)]

\* FormatCompatibility.get_format_info: None for a name that is not a key.
Known(format_name) == format_name \in DOMAIN Formats
Elems(list) == {list[i] : i \in 1 .. Len(list)}

\* get_fallback_codec keeping the requested audio codec.
GetFallbackCodecVideoOnly(format_name, requested_video_codec, requested_audio_codec) ==
    IF ~Known(format_name) THEN << "libx264", "aac" >>
    ELSE LET fmt == Formats[format_name]
         IN << IF requested_video_codec \notin Elems(fmt.supported_video_codecs)
                  /\ fmt.supported_video_codecs # << >>
               THEN fmt.supported_video_codecs[1] ELSE requested_video_codec,
               requested_audio_codec >>

\* FormatCompatibility.get_fallback_codec
GetFallbackCodec(format_name, requested_video_codec, requested_audio_codec) ==
    IF ~Known(format_name) THEN << "libx264", "aac" >>
    ELSE LET fmt == Formats[format_name]
         IN << IF requested_video_codec \notin Elems(fmt.supported_video_codecs)
                  /\ fmt.supported_video_codecs # << >>
               THEN fmt.supported_video_codecs[1] ELSE requested_video_codec,
               IF requested_audio_codec \notin Elems(fmt.supported_audio_codecs)
                  /\ fmt.supported_audio_codecs # << >>
               THEN fmt.supported_audio_codecs[1] ELSE requested_audio_codec >>

\* ConversionWorker._normalize_video_codec on the names the jobs here use: ""
\* stands for a missing key or None; the aliases of the mapping; a name with
\* the prefix "lib" loses it; any other name is kept.
NormalizeVideoCodec(codec) ==
    CASE codec = "" -> "h264"
      [] codec \in {"libx264", "x264"} -> "h264"
      [] codec \in {"libx265", "x265", "hevc"} -> "h265"
      [] codec = "libvpx-vp9" -> "vp9"
      [] codec = "libvpx" -> "vp8"
      [] codec \in {"libaom-av1", "libaom", "vp10"} -> "av1"
      [] codec \in {"libxvid", "xvid"} -> "mpeg4"
      [] codec = "libtheora" -> "theora"
      [] OTHER -> codec

\* ConversionWorker._normalize_audio_codec
NormalizeAudioCodec(codec) ==
    CASE codec = "" -> "aac"
      [] codec = "libopus" -> "opus"
      [] codec = "libvorbis" -> "vorbis"
      [] codec = "libmp3lame" -> "mp3"
      [] codec \in {"pcm_s16le", "pcm_s24le", "pcm_s32le"} -> "pcm"
      [] OTHER -> codec

\* _DEFAULT_VIDEO_ENCODERS.get(video_codec, f"lib{video_codec}")
DefaultVideoEncoder(video_codec) ==
    CASE video_codec = "h264" -> "libx264"
      [] video_codec = "h265" -> "libx265"
      [] video_codec = "vp9" -> "libvpx-vp9"
      [] video_codec = "vp8" -> "libvpx"
      [] video_codec = "av1" -> "libaom-av1"
      [] video_codec = "mpeg4" -> "mpeg4"
      [] video_codec = "mjpeg" -> "mjpeg"
      [] video_codec = "ffv1" -> "ffv1"
      [] video_codec = "prores" -> "prores_ks"
      [] video_codec = "flv1" -> "libflv1"
      [] video_codec = "theora" -> "libtheora"
      [] OTHER -> "lib"

\* _DEFAULT_AUDIO_ENCODERS.get(audio_codec, audio_codec)
DefaultAudioEncoder(audio_codec) ==
    CASE audio_codec = "mp3" -> "libmp3lame"
      [] audio_codec = "opus" -> "libopus"
      [] audio_codec = "vorbis" -> "libvorbis"
      [] audio_codec = "pcm" -> "pcm_s16le"
      [] audio_codec = "dts" -> "dca"
      [] OTHER -> audio_codec

\* ConversionWorker._is_lossy_audio with the "lossy" flags of
\* FormatCompatibility._initialize_audio_codecs
IsLossyAudio(codec) == codec \notin {"flac", "alac", "pcm"}

\* HardwareDetector._detect_encoders: the codec families whose encoders are
\* looked for (the keys of hw_patterns), and the hardware suffixes a build of
\* ffmpeg can list for a family.
Families == {"h264", "hevc", "vp9", "av1"}
Suffixes == {"nvenc", "qsv", "videotoolbox", "amf", "vulkan", "vaapi"}

\* AccelerationType
Accelerations ==
    {"cuda", "vulkan", "opencl", "videotoolbox", "qsv", "dxva2", "d3d11va", "none"}

\* available_encoders after a detection that found the suffixes found for the
\* family family and nothing for the others
Catalog(family, found) == [f \in Families |-> IF f = family THEN found ELSE {}]

\* The machine: HardwareDetector.best_acceleration and available_encoders.
Machine(best_acceleration, available_encoders) ==
    [best_acceleration |-> best_acceleration, available_encoders |-> available_encoders]
CpuOnly == Machine("none", Catalog("h264", {}))
Cuda == Machine("cuda", [f \in Families |-> IF f \in {"h264", "hevc"} THEN {"nvenc"} ELSE {}])
Qsv == Machine("qsv", [f \in Families |-> IF f \in {"h264", "hevc"} THEN {"qsv"} ELSE {}])
Amf == Machine("d3d11va", [f \in Families |-> IF f \in {"h264", "hevc"} THEN {"amf"} ELSE {}])

\* HardwareDetector.get_acceleration_args
GetAccelerationArgs(hw, codec) ==
    CASE hw.best_acceleration = "none" -> << >>
      [] hw.best_acceleration = "qsv" ->
           << [opt |-> "-hwaccel", arg |-> "qsv", n |-> 0],
              [opt |-> "-hwaccel_output_format", arg |-> "qsv", n |-> 0] >>
      [] OTHER -> << [opt |-> "-hwaccel", arg |-> hw.best_acceleration, n |-> 0] >>

\* f"{codec}_{suffix}" for the codecs that are keys of available_encoders
HwEncoderName(codec, suffix) ==
    CASE codec = "h264" /\ suffix = "nvenc" -> "h264_nvenc"
      [] codec = "h264" /\ suffix = "qsv" -> "h264_qsv"
      [] codec = "h264" /\ suffix = "videotoolbox" -> "h264_videotoolbox"
      [] codec = "h264" /\ suffix = "amf" -> "h264_amf"
      [] codec = "h264" /\ suffix = "vulkan" -> "h264_vulkan"
      [] codec = "h264" /\ suffix = "vaapi" -> "h264_vaapi"
      [] codec = "hevc" /\ suffix = "nvenc" -> "hevc_nvenc"
      [] codec = "hevc" /\ suffix = "qsv" -> "hevc_qsv"
      [] codec = "hevc" /\ suffix = "videotoolbox" -> "hevc_videotoolbox"
      [] codec = "hevc" /\ suffix = "amf" -> "hevc_amf"
      [] codec = "hevc" /\ suffix = "vulkan" -> "hevc_vulkan"
      [] codec = "hevc" /\ suffix = "vaapi" -> "hevc_vaapi"
      [] codec = "vp9" /\ suffix = "nvenc" -> "vp9_nvenc"
      [] codec = "vp9" /\ suffix = "qsv" -> "vp9_qsv"
      [] codec = "vp9" /\ suffix = "videotoolbox" -> "vp9_videotoolbox"
      [] codec = "vp9" /\ suffix = "amf" -> "vp9_amf"
      [] codec = "vp9" /\ suffix = "vulkan" -> "vp9_vulkan"
      [] codec = "vp9" /\ suffix = "vaapi" -> "vp9_vaapi"
      [] codec = "av1" /\ suffix = "nvenc" -> "av1_nvenc"
      [] codec = "av1" /\ suffix = "qsv" -> "av1_qsv"
      [] codec = "av1" /\ suffix = "videotoolbox" -> "av1_videotoolbox"
      [] codec = "av1" /\ suffix = "amf" -> "av1_amf"
      [] codec = "av1" /\ suffix = "vulkan" -> "av1_vulkan"
      [] codec = "av1" /\ suffix = "vaapi" -> "av1_vaapi"
      [] OTHER -> "_"

\* get_encoder, lines 204-230: the suffix picked for the acceleration method
\* among the hardware encoders of the codec, "" when none is picked
PickSuffix(best_acceleration, hw_encoders) ==
    IF best_acceleration = "cuda" /\ "nvenc" \in hw_encoders THEN "nvenc"
    ELSE IF best_acceleration = "qsv" /\ "qsv" \in hw_encoders THEN "qsv"
    ELSE IF best_acceleration = "videotoolbox" /\ "videotoolbox" \in hw_encoders
         THEN "videotoolbox"
    ELSE IF best_acceleration \in {"d3d11va", "dxva2"} /\ "amf" \in hw_encoders THEN "amf"
    ELSE IF best_acceleration \in {"d3d11va", "dxva2"} /\ "qsv" \in hw_encoders THEN "qsv"
    ELSE IF best_acceleration \in {"d3d11va", "dxva2"} /\ "nvenc" \in hw_encoders THEN "nvenc"
    ELSE IF best_acceleration = "vulkan" /\ "vulkan" \in hw_encoders THEN "vulkan"
    ELSE IF best_acceleration = "opencl" /\ "nvenc" \in hw_encoders THEN "nvenc"
    ELSE IF best_acceleration = "opencl" /\ "qsv" \in hw_encoders THEN "qsv"
    ELSE IF best_acceleration = "opencl" /\ "amf" \in hw_encoders THEN "amf"
    ELSE IF "vaapi" \in hw_encoders THEN "vaapi"
    ELSE ""

\* HardwareDetector.get_encoder
GetEncoder(hw, codec, fallback) ==
    IF hw.best_acceleration = "none" THEN fallback
    ELSE IF codec \notin DOMAIN hw.available_encoders THEN fallback
    ELSE IF PickSuffix(hw.best_acceleration, hw.available_encoders[codec]) = "" THEN fallback
    ELSE HwEncoderName(codec, PickSuffix(hw.best_acceleration, hw.available_encoders[codec]))

\* int() of the quotient of two whole numbers: truncation toward zero.
IntOf(num, den) == IF num >= 0 THEN num \div den ELSE -((-num) \div den)

\* An audio bitrate as the job states it: nothing, "<n>k", the number n, a
\* text with another unit ("1M") or a text that ends in k without a number.
Bitrate(kind, n) == [kind |-> kind, n |-> n]

\* ConversionWorker._extract_audio_bitrate_kbps
ExtractAudioBitrateKbps(audio_bitrate) ==
    CASE audio_bitrate.kind = "none" -> 128
      [] audio_bitrate.kind \in {"k", "number"} ->
           IF audio_bitrate.kind = "number" /\ audio_bitrate.n = 0 THEN 128
           ELSE audio_bitrate.n
      [] OTHER -> 128

\* TargetVideoKbps without the floor of 300 kbps.
TargetVideoKbpsNoFloor(target_mb, probed_duration, audio_bitrate) ==
    LET duration == Max(probed_duration, 1)
    IN IntOf(target_mb * 8000 - audio_bitrate * duration, duration)

\* TargetVideoKbps with the audio share left out.
TargetVideoKbpsNoAudio(target_mb, probed_duration, audio_bitrate) ==
    LET duration == Max(probed_duration, 1)
    IN Max(IntOf(target_mb * 8000, duration), 300)

\* _apply_video_settings, lines 249-254: the video bitrate of target_size mode
TargetVideoKbps(target_mb, probed_duration, audio_bitrate) ==
    LET duration == Max(probed_duration, 1)
        total_kbits == target_mb * 8000
    IN Max(IntOf(total_kbits - audio_bitrate * duration, duration), 300)

\* One argument of the command line, or an option with its value; n holds a
\* numeric value (a bitrate in kbps, a crf, a thread count).
Opt(opt, arg) == [opt |-> opt, arg |-> arg, n |-> 0]
OptN(opt, arg, n) == [opt |-> opt, arg |-> arg, n |-> n]

\* What the probe found: the duration in seconds and the frame rate of the
\* first video stream, 0 when no rate is known (_get_input_info).
InputInfo(duration, fps) == [duration |-> duration, fps |-> fps]

\* A job configuration; "" stands for a key that is missing or None, and for
\* gop_size 0 does (both are false to the code); gop_seconds is 2 when missing.  Keys a
\* job here never sets (preset, tune, profile, GOP, filters, ...) are left out,
\* and with them the options they would add.
DefaultConfig ==
    [video_codec |-> "h264", audio_codec |-> "aac", video_copy |-> FALSE,
     audio_copy |-> FALSE, video_encoder |-> "", audio_encoder |-> "",
     encoding_mode |-> "crf", crf |-> 23, video_bitrate |-> "5M",
     target_size_mb |-> 50, audio_bitrate |-> Bitrate("none", 0),
     conversion_type |-> "", use_hardware_acceleration |-> FALSE,
     start_time |-> "", duration |-> "", threads |-> 0,
     gop_mode |-> "", gop_size |-> 0, gop_seconds |-> 2,
     video_tune |-> "", movflags |-> ""]

\* ConfigCopy handing out the caller's dict itself.
ConfigAlias(job_config) == [config |-> job_config, shared |-> TRUE]

\* _build_ffmpeg_command, line 173: config = dict(self.job_config), a new
\* dict; shared tells whether writes to config reach job_config.
ConfigCopy(job_config) == [config |-> job_config, shared |-> FALSE]

\* The state of a synthesis: the command so far, the working config, and the
\* codecs the encoders were picked from ("" while none was picked).
Building(config) ==
    [command |-> << >>, config |-> config, video_used |-> "", audio_used |-> ""]
Extend(b, args) == [b EXCEPT !.command = @ \o args]

\* round() of the quotient of two whole numbers, den > 0: to the nearest
\* whole number, a half to the even neighbour.
RoundOf(num, den) ==
    IF 2 * (num % den) < den THEN num \div den
    ELSE IF 2 * (num % den) > den THEN (num \div den) + 1
    ELSE IF (num \div den) % 2 = 0 THEN num \div den ELSE (num \div den) + 1

\* A resolved GOP size, or None
NoGop == [none |-> TRUE, g |-> 0]
Gop(g) == [none |-> FALSE, g |-> g]

\* _resolve_gop_size, lines 478-490, for the mode in lower case
ResolveGopMode(mode, fps, default_g, gop_seconds) ==
    CASE mode = "half_fps" /\ fps > 0 -> Gop(Max(1, RoundOf(fps, 2)))
      [] mode = "same_fps" /\ fps > 0 -> Gop(Max(1, RoundOf(fps, 1)))
      [] mode = "double_fps" /\ fps > 0 -> Gop(Max(1, RoundOf(fps * 2, 1)))
      [] mode = "seconds" /\ fps > 0 -> Gop(Max(1, RoundOf(fps * gop_seconds, 1)))
      [] mode = "custom" /\ default_g # 0 -> Gop(default_g)
      [] OTHER -> IF default_g # 0 THEN Gop(default_g) ELSE NoGop

\* ConversionWorker._resolve_gop_size
ResolveGopSize(config, input_info) ==
    IF input_info.fps <= 0 /\ config.gop_size = 0 THEN NoGop
    ELSE ResolveGopMode(IF config.gop_mode = "" THEN "half_fps" ELSE config.gop_mode,
                        input_info.fps, config.gop_size, config.gop_seconds)

\* _apply_video_settings, lines 289-291: -g when a GOP size was resolved
GopOptions(gop_size) ==
    IF gop_size.none \/ gop_size.g = 0 THEN << >> ELSE << OptN("-g", "", gop_size.g) >>

\* _apply_video_settings, lines 239-258: the options of the encoding mode
ModeOptions(config, input_info) ==
    LET encoding_mode == IF config.encoding_mode = "" THEN "crf" ELSE config.encoding_mode
    IN CASE encoding_mode = "crf" -> << OptN("-crf", "", config.crf) >>
         [] encoding_mode = "bitrate" -> << Opt("-b:v", config.video_bitrate) >>
         [] encoding_mode = "target_size" ->
              << OptN("-b:v", "k",
                      TargetVideoKbps(config.target_size_mb, input_info.duration,
                                      ExtractAudioBitrateKbps(config.audio_bitrate))) >>
         [] encoding_mode = "cq" -> << OptN("-cq", "", 20) >>
         [] OTHER -> << >>

\* _apply_video_settings, lines 223-226: the container does not take the codec
VideoFallback(output_ext, video_codec) ==
    Known(output_ext) /\ video_codec \notin Elems(Formats[output_ext].supported_video_codecs)

\* _apply_audio_settings, lines 401-404: the container does not take the codec
AudioFallback(output_ext, audio_codec) ==
    Known(output_ext) /\ audio_codec \notin Elems(Formats[output_ext].supported_audio_codecs)

\* The fallback's writes: config["video_codec"], config["audio_codec"]
WithCodecs(config, pair) ==
    [config EXCEPT !.video_codec = pair[1], !.audio_codec = pair[2]]

\* _apply_video_settings: the encoder of a video codec
VideoEncoderFor(config, video_codec, hw) ==
    IF config.video_encoder # "" THEN config.video_encoder
    ELSE IF config.use_hardware_acceleration
         THEN GetEncoder(hw, video_codec, DefaultVideoEncoder(video_codec))
         ELSE DefaultVideoEncoder(video_codec)

\* "nvenc" in encoder.lower(), for the encoder names of the jobs here
HasNvenc(encoder) == encoder \in {HwEncoderName(f, "nvenc") : f \in Families}

\* ConversionWorker._map_encoder_tune; "" stands for None, " " for a tune of
\* blanks only
MapEncoderTune(encoder, tune) ==
    IF tune = "" \/ tune = " " THEN ""
    ELSE IF HasNvenc(encoder) THEN ""
    ELSE tune

\* _apply_video_settings, lines 265-267: -tune when a tune was mapped
TuneOptions(video_tune) ==
    IF video_tune = "" THEN << >> ELSE << Opt("-tune", video_tune) >>

\* _apply_video_settings, lines 316-323: the movflags of the job for mp4 and
\* mov, +faststart for mp4 without them
MovflagsOptions(config, output_ext) ==
    IF config.movflags # "" /\ output_ext \in {"mp4", "mov"}
    THEN << Opt("-movflags", config.movflags) >>
    ELSE IF output_ext = "mp4" THEN << Opt("-movflags", "+faststart") >>
    ELSE << >>

\* _apply_video_settings from the encoder on: -c:v, the options of the
\* encoding mode, the tune, the GOP size, the container's flags
EncodeVideo(b, config, video_codec, output_ext, input_info, hw) ==
    [command |-> b.command \o << Opt("-c:v", VideoEncoderFor(config, video_codec, hw)) >>
                 \o ModeOptions(config, input_info)
                 \o TuneOptions(MapEncoderTune(VideoEncoderFor(config, video_codec, hw),
                                               config.video_tune))
                 \o GopOptions(ResolveGopSize(config, input_info))
                 \o MovflagsOptions(config, output_ext),
     config |-> config, video_used |-> video_codec, audio_used |-> b.audio_used]

\* _apply_video_settings for a job that encodes: the normalized codecs, the
\* fallback when the container does not take the video codec
EncodeVideoChecked(b, video_codec, audio_codec, output_ext, input_info, hw) ==
    IF VideoFallback(output_ext, video_codec)
    THEN EncodeVideo(b, WithCodecs(b.config,
                                   GetFallbackCodec(output_ext, video_codec, audio_codec)),
                     GetFallbackCodec(output_ext, video_codec, audio_codec)[1],
                     output_ext, input_info, hw)
    ELSE EncodeVideo(b, b.config, video_codec, output_ext, input_info, hw)

\* ConversionWorker._apply_video_settings
ApplyVideoSettings(b, output_ext, input_info, hw) ==
    IF b.config.video_copy THEN Extend(b, << Opt("-c:v", "copy") >>)
    ELSE EncodeVideoChecked(b, NormalizeVideoCodec(b.config.video_codec),
                            NormalizeAudioCodec(b.config.audio_codec),
                            output_ext, input_info, hw)

\* _apply_audio_settings, lines 409-410: an audio bitrate is stated
StatedBitrate(audio_bitrate) ==
    /\ audio_bitrate.kind # "none"
    /\ ~(audio_bitrate.kind = "number" /\ audio_bitrate.n = 0)

\* _apply_audio_settings from the encoder on: -c:a and -b:a
EncodeAudio(b, config, audio_codec) ==
    [command |-> b.command
                 \o << Opt("-c:a", IF config.audio_encoder # "" THEN config.audio_encoder
                                   ELSE DefaultAudioEncoder(audio_codec)) >>
                 \o (IF StatedBitrate(config.audio_bitrate) /\ IsLossyAudio(audio_codec)
                     THEN << OptN("-b:a", config.audio_bitrate.kind,
                                  config.audio_bitrate.n) >> ELSE << >>),
     config |-> config, video_used |-> b.video_used, audio_used |-> audio_codec]

\* _apply_audio_settings for a job that encodes: the normalized codecs, the
\* fallback when the container does not take the audio codec
EncodeAudioChecked(b, video_codec, audio_codec, output_ext) ==
    IF AudioFallback(output_ext, audio_codec)
    THEN EncodeAudio(b, WithCodecs(b.config,
                                   GetFallbackCodec(output_ext, video_codec, audio_codec)),
                     GetFallbackCodec(output_ext, video_codec, audio_codec)[2])
    ELSE EncodeAudio(b, b.config, audio_codec)

\* ConversionWorker._apply_audio_settings
ApplyAudioSettings(b, output_ext) ==
    IF b.config.audio_copy \/ b.config.audio_codec = "copy"
    THEN Extend(b, << Opt("-c:a", "copy") >>)
    ELSE EncodeAudioChecked(b, NormalizeVideoCodec(b.config.video_codec),
                            NormalizeAudioCodec(b.config.audio_codec), output_ext)

\* _build_ffmpeg_command, line 177
IsAudioContainer(output_ext) == Known(output_ext) /\ Formats[output_ext].type = "audio"

\* _build_ffmpeg_command, lines 171-183: the program, -y, the hardware
\* arguments and the input
InputOptions(b, output_ext, hw) ==
    Extend(b, << Opt("ffmpeg", ""), Opt("-y", "") >>
              \o (IF b.config.use_hardware_acceleration /\ ~IsAudioContainer(output_ext)
                  THEN GetAccelerationArgs(hw, b.config.video_codec) ELSE << >>)
              \o << Opt("-i", "input_file") >>)

\* _build_ffmpeg_command, lines 185-188
VideoOptions(b, output_ext, input_info, hw) ==
    IF b.config.conversion_type = "video_to_audio" \/ IsAudioContainer(output_ext)
    THEN Extend(b, << Opt("-vn", "") >>)
    ELSE ApplyVideoSettings(b, output_ext, input_info, hw)

\* _build_ffmpeg_command, lines 190-191
AudioOptions(b, output_ext) ==
    IF b.config.conversion_type # "audio_to_video"
    THEN ApplyAudioSettings(b, output_ext) ELSE b

\* OutputOptions with the output path put before the thread count.
OutputOptionsPathFirst(b) ==
    Extend(b, (IF b.config.start_time # ""
               THEN << Opt("-ss", b.config.start_time) >> ELSE << >>)
              \o (IF b.config.duration # ""
                  THEN << Opt("-t", b.config.duration) >> ELSE << >>)
              \o << Opt("output_file", ""), OptN("-threads", "", b.config.threads),
                    Opt("-hide_banner", ""), Opt("-loglevel", "info"),
                    Opt("-stats", "") >>)

\* _build_ffmpeg_command, lines 193-204: trim, threads, logging, the output
OutputOptions(b) ==
    Extend(b, (IF b.config.start_time # ""
               THEN << Opt("-ss", b.config.start_time) >> ELSE << >>)
              \o (IF b.config.duration # ""
                  THEN << Opt("-t", b.config.duration) >> ELSE << >>)
              \o << OptN("-threads", "", b.config.threads),
                    Opt("-hide_banner", ""), Opt("-loglevel", "info"),
                    Opt("-stats", ""), Opt("output_file", "") >>)

\* What a build leaves: the command, the working config, and job_config, the
\* caller's dict, which took the writes to config only if config is that dict.
BuildResult(b, copy, job_config) ==
    [command |-> b.command, config |-> b.config,
     video_used |-> b.video_used, audio_used |-> b.audio_used,
     job_config |-> IF copy.shared THEN b.config ELSE job_config]

\* ConversionWorker._build_ffmpeg_command
BuildFfmpegCommand(job_config, output_ext, input_info, hw) ==
    BuildResult(
        OutputOptions(
            AudioOptions(
                VideoOptions(
                    InputOptions(Building(ConfigCopy(job_config).config), output_ext, hw),
                    output_ext, input_info, hw),
                output_ext)),
        ConfigCopy(job_config), job_config)

\* No synthesis under way (the specifications of the scheduler and the worker).
NoSynth ==
    [pc |-> "off", output_ext |-> "", hw |-> CpuOnly, job_config |-> DefaultConfig,
     given |-> DefaultConfig, input_info |-> InputInfo(0, 0),
     command |-> << >>, config |-> DefaultConfig, video_used |-> "", audio_used |-> "",
     again |-> << >>, pair |-> << "", "" >>, codec |-> "", encoder |-> ""]

\* A call of get_fallback_codec
ResolveFallback ==
    /\ synth.pc = "ask"
    /\ synth' = [synth EXCEPT !.pc = "answered",
                              !.pair = GetFallbackCodec(synth.output_ext,
                                                        synth.job_config.video_codec,
                                                        synth.job_config.audio_codec)]
    /\ UNCHANGED programVars

\* _apply_video_settings, lines 230-232: a call of get_encoder with the
\* codec's software encoder as the fallback
PickEncoder ==
    /\ synth.pc = "pick"
    /\ synth' = [synth EXCEPT !.pc = "picked",
                              !.encoder = GetEncoder(synth.hw, synth.codec,
                                                     DefaultVideoEncoder(synth.codec))]
    /\ UNCHANGED programVars

\* The worker after a build, and after a second one
Built(r) ==
    [synth EXCEPT !.pc = "built", !.command = r.command, !.config = r.config,
                  !.video_used = r.video_used, !.audio_used = r.audio_used,
                  !.job_config = r.job_config]
Rebuilt(r) ==
    [synth EXCEPT !.pc = "rebuilt", !.again = r.command, !.job_config = r.job_config]

\* run(), line 76: the command is built from the job's config
BuildCommand ==
    /\ synth.pc = "ready"
    /\ synth' = Built(BuildFfmpegCommand(synth.job_config, synth.output_ext,
                                         synth.input_info, synth.hw))
    /\ UNCHANGED programVars

\* A second build from the same worker's job_config
BuildAgain ==
    /\ synth.pc = "built"
    /\ synth' = Rebuilt(BuildFfmpegCommand(synth.job_config, synth.output_ext,
                                           synth.input_info, synth.hw))
    /\ UNCHANGED programVars

\* ------------------------------------------------------- specifications
InitProgram ==
    /\ hw_detector = "None"
    /\ detect_timer = TRUE
    /\ conversion_queue = << >>
    /\ active_conversions = << >>
    /\ progress_values = EmptyDict
    /\ start_btn = TRUE
    /\ stop_btn = FALSE
    /\ progress_bar = 0
    /\ gui = Idle
    /\ events = << >>
    /\ last = NoLast
    /\ added = 0
    /\ worker = [w \in Workers |-> NoWorker]
    /\ temp_dirs = {}

Init ==
    /\ max_parallel_conversions \in {1, 2}
    /\ ffmpeg_path = "ffmpeg"
    /\ hw_accel = TRUE
    /\ profile = "pool"
    /\ InitProgram
    /\ synth = NoSynth

Next ==
    \/ \E file \in Paths : AddFiles(file)
    \/ ClearQueue
    \/ DetectHardware
    \/ StartConversion
    \/ StopConversion
    \/ StopResume
    \/ OnConversionProgress
    \/ OnConversionError
    \/ OnConversionFinished
    \/ OnFinishedResume
    \/ \E w \in Workers :
          \/ RunStart(w)
          \/ RunAnalyze(w)
          \/ ReadLine(w)
          \/ ReadEOF(w)
          \/ RunFinally(w)

Spec == Init /\ [][Next]_vars

\* Up to MaxBatch jobs, two at a time, all queued before the first start.
BatchInit ==
    /\ max_parallel_conversions = 2
    /\ ffmpeg_path = "ffmpeg"
    /\ hw_accel = TRUE
    /\ profile = "batch"
    /\ InitProgram
    /\ synth = NoSynth

BatchNext ==
    \/ \E file \in Paths : AddFiles(file)
    \/ ClearQueue
    \/ DetectHardware
    \/ StartConversion
    \/ StopConversion
    \/ StopResume
    \/ OnConversionProgress
    \/ OnConversionError
    \/ OnConversionFinished
    \/ OnFinishedResume
    \/ \E w \in Workers :
          \/ RunStart(w)
          \/ RunAnalyze(w)
          \/ ReadEOF(w)
          \/ RunFinally(w)

BatchSpec == BatchInit /\ [][BatchNext]_vars

\* One job, in an environment where every step may fail.
ExecInit ==
    /\ max_parallel_conversions \in {1, 2}
    /\ ffmpeg_path \in {"", "ffmpeg"}
    /\ hw_accel \in (IF ffmpeg_path = "" THEN {FALSE} ELSE BOOLEAN)
    /\ profile = "exec"
    /\ InitProgram
    /\ synth = NoSynth

ExecSpec == ExecInit /\ [][Next]_vars

\* One job whose encoder writes more lines than the buffer keeps.
LongInit ==
    /\ max_parallel_conversions = 2
    /\ ffmpeg_path = "ffmpeg"
    /\ hw_accel = TRUE
    /\ profile = "long"
    /\ InitProgram
    /\ synth = NoSynth

LongSpec == LongInit /\ [][Next]_vars

\* Calls of get_fallback_codec with every container name (and one that is not
\* a container) and every pair of requested codecs.
RequestedVideo ==
    {"h264", "h265", "vp9", "vp8", "av1", "mpeg4", "mjpeg", "ffv1", "prores", "flv1",
     "theora"}
RequestedAudio ==
    {"aac", "alac", "mp3", "ac3", "flac", "opus", "vorbis", "dts", "pcm", "wma"}
OutputExts == DOMAIN Formats \cup {"xyz"}

HarnessInit ==
    /\ max_parallel_conversions = 2
    /\ ffmpeg_path = "ffmpeg"
    /\ hw_accel = FALSE
    /\ profile = "synth"
    /\ InitProgram

FallbackInit ==
    /\ HarnessInit
    /\ \E format_name \in OutputExts, v \in RequestedVideo, a \in RequestedAudio :
          synth = [NoSynth EXCEPT !.pc = "ask", !.output_ext = format_name,
                                  !.job_config = [DefaultConfig EXCEPT !.video_codec = v,
                                                                       !.audio_codec = a]]

FallbackNext == ResolveFallback

FallbackSpec == FallbackInit /\ [][FallbackNext]_vars

\* Command synthesis: jobs that differ in container, codecs, stream copy and
\* encoder override, and jobs of every encoding mode that differ in target
\* size, duration and audio bitrate.
CodecJobs ==
    {[DefaultConfig EXCEPT !.video_codec = v, !.audio_codec = a, !.video_copy = vc,
                           !.audio_copy = ac, !.video_encoder = ve,
                           !.use_hardware_acceleration = hwa] :
        v \in {"", "h264", "vp9", "mpeg4", "libx264", "hevc", "libtheora"},
        a \in {"", "aac", "mp3", "opus", "libopus", "copy", "wma"},
        vc \in BOOLEAN, ac \in BOOLEAN, ve \in {"", "libvpx"}, hwa \in BOOLEAN}

TargetSizes == {1, 50, 700}
Durations == {0, 1, 120, 7200}
AudioBitrates ==
    {Bitrate("none", 0), Bitrate("k", 128), Bitrate("k", 320), Bitrate("number", 64),
     Bitrate("number", 0), Bitrate("unit", 1), Bitrate("text", 0)}

SizeJobs ==
    {[DefaultConfig EXCEPT !.encoding_mode = m, !.target_size_mb = t,
                           !.audio_bitrate = ab, !.start_time = ss, !.duration = len] :
        m \in {"", "crf", "bitrate", "target_size", "cq", "lossless"},
        t \in TargetSizes, ab \in AudioBitrates, ss \in {"", "00:00:05"},
        len \in {"", "00:00:10"}}

\* Encoder selection: every acceleration method, every set of hardware
\* encoders found for one family, and the codecs the synthesis passes.
CanonicalCodecs == {"h264", "h265", "vp9", "av1", "vp8", "mpeg4"}
EncoderInit ==
    /\ HarnessInit
    /\ \E a \in Accelerations, family \in Families, found \in SUBSET Suffixes,
          codec \in CanonicalCodecs :
          synth = [NoSynth EXCEPT !.pc = "pick", !.hw = Machine(a, Catalog(family, found)),
                                  !.codec = codec]
EncoderNext == PickEncoder
EncoderSpec == EncoderInit /\ [][EncoderNext]_vars

GopModes == {"", "half_fps", "same_fps", "double_fps", "seconds", "custom", "keyframes"}
GopSizes == {0, 1, 12, 600, -1}
GopSeconds == {0, 2, 10, -1}
FrameRates == {0, 1, 24, 25, 30, 60}
GopJobs ==
    {[DefaultConfig EXCEPT !.gop_mode = m, !.gop_size = g, !.gop_seconds = sec] :
        m \in GopModes, g \in GopSizes, sec \in GopSeconds}

FlagJobs ==
    {[DefaultConfig EXCEPT !.video_tune = tune, !.video_encoder = ve,
                           !.use_hardware_acceleration = hwa, !.video_codec = v,
                           !.movflags = mf, !.video_copy = vc, !.conversion_type = ct,
                           !.duration = t] :
        tune \in {"", "film", " "}, ve \in {"", "h264_nvenc", "h264_vaapi"},
        hwa \in BOOLEAN, v \in {"h264", "hevc", "vp9"}, mf \in {"", "+frag_keyframe"},
        vc \in BOOLEAN, ct \in {"", "video_to_audio"}, t \in {"", "00:00:10"}}

SynthInit ==
    /\ HarnessInit
    /\ \/ \E output_ext \in OutputExts, job \in CodecJobs, hw \in {CpuOnly, Cuda} :
             synth = [NoSynth EXCEPT !.pc = "ready", !.output_ext = output_ext, !.hw = hw,
                                     !.job_config = job, !.given = job,
                                     !.input_info = InputInfo(120, 30)]
       \/ \E output_ext \in {"mp4", "mkv"}, job \in SizeJobs, d \in Durations :
             synth = [NoSynth EXCEPT !.pc = "ready", !.output_ext = output_ext,
                                     !.job_config = job, !.given = job,
                                     !.input_info = InputInfo(d, 30)]
       \/ \E output_ext \in {"mp4", "mkv"}, job \in GopJobs, fps \in FrameRates :
             synth = [NoSynth EXCEPT !.pc = "ready", !.output_ext = output_ext,
                                     !.job_config = job, !.given = job,
                                     !.input_info = InputInfo(120, fps)]
       \/ \E output_ext \in {"mp4", "mov", "mkv"}, job \in FlagJobs,
             hw \in {CpuOnly, Cuda, Qsv, Amf} :
             synth = [NoSynth EXCEPT !.pc = "ready", !.output_ext = output_ext, !.hw = hw,
                                     !.job_config = job, !.given = job,
                                     !.input_info = InputInfo(120, 30)]

SynthNext == BuildCommand \/ BuildAgain

SynthSpec == SynthInit /\ [][SynthNext]_vars

\* ----------------------------------------------------------------- claims
HandlerDone(op) == gui.pc = "idle" /\ last.op = op
Started == {w \in Workers : worker[w].pc # "none"}

\* C1: after the handler of any terminal event (success, failure or
\* cancellation) the freed slot has been filled: it is not the case that the
\* queue is non-empty while fewer than N jobs are active.
C1_SlotFilledAfterTerminal ==
    HandlerDone("finished") =>
        ~(conversion_queue # << >> /\ Len(active_conversions) < MaxParallel)

\* C2: the active set never holds more than N = max(1, max_parallel_conversions)
\* jobs.
C2_ActiveAtMostN == Len(active_conversions) <= MaxParallel

C2_Witness ==
    /\ HandlerDone("start")
    /\ Len(active_conversions) = MaxParallel
    /\ conversion_queue # << >>

\* C3: after the handler of a terminal event, overall completion has been
\* signaled exactly when the queue is empty and the active set is empty.
C3_CompletionExactly ==
    HandlerDone("finished") =>
        (last.complete <=> (conversion_queue = << >> /\ active_conversions = << >>))

\* C4: a job whose stop was requested while its encoder was running ends
\* Cancelled (finished(False, "Conversion cancelled")), and emits no error.
C4_StopWhileRunningCancels ==
    \A w \in Started :
        (worker[w].stop_at = "running" /\ worker[w].fin > 0) =>
            /\ ~worker[w].success
            /\ worker[w].message = CancelledMsg
            /\ worker[w].err = 0

\* C5: a job whose stop was requested at any point before its terminal event
\* (before run() began, during the analysis, or while the encoder ran, whether
\* the encoder obeys terminate or has to be killed) has reached the terminal
\* state Cancelled once run() has returned.
C5_StoppedJobEndsCancelled ==
    \A w \in Started :
        (worker[w].stop_at \in {"created", "analyzing", "running"}
         /\ worker[w].pc = "returned") =>
            (worker[w].fin = 1 /\ worker[w].message = CancelledMsg)

\* C6 as claimed: when stop_conversion returns, every job that was active has
\* had its stop requested, the active set is empty and the queue is empty.
C6_StopClearsQueue ==
    HandlerDone("stop") =>
        /\ \A w \in last.stopped : worker[w].should_stop
        /\ active_conversions = << >>
        /\ conversion_queue = << >>

\* C6 as amended: when stop_conversion returns, every job that was active has
\* had its stop requested, the active set and the progress table are empty,
\* and the queue of not-yet-started jobs is as it was before the call.
C6_StopKeepsQueue ==
    HandlerDone("stop") =>
        /\ \A w \in last.stopped : worker[w].should_stop
        /\ active_conversions = << >>
        /\ DOMAIN progress_values = {}
        /\ conversion_queue = last.queue

C6_Witness ==
    /\ HandlerDone("stop")
    /\ last.stopped # {}
    /\ conversion_queue # << >>

\* C7: the handler of the terminal event of job J removes no other job than J
\* from the active set, and waits on no other job's thread.
C7_TerminalEventIsLocal ==
    last.op = "finished" =>
        /\ last.removed \subseteq {last.w}
        /\ gui.pc = "finished_wait" => gui.thr = last.w

\* C8: a run emits exactly one finished signal, on every path, and nothing
\* after it: no worker has emitted twice or late, a worker has emitted its
\* finished signal exactly when run() is past its body, and no signal of a
\* worker waits in the event queue behind its finished signal.
C8_OneTerminalEvent ==
    /\ \A w \in Started :
          /\ worker[w].fin <= 1
          /\ ~worker[w].late
          /\ (worker[w].fin = 1) <=> (worker[w].pc \in {"finally", "returned"})
    /\ \A i, j \in 1 .. Len(events) :
          (i < j /\ events[i].w = events[j].w) => events[i].sig # "finished"

C8_Witness ==
    \E w \in Started :
        /\ worker[w].pc = "returned"
        /\ worker[w].fin = 1
        /\ worker[w].message = Msg("Analysis failed")

\* C9: a job is reported Succeeded only if its encoder exited with code 0, and
\* an encoder that exits with a nonzero code without a detected cancellation
\* yields Failed with the exit code and the last 20 non-blank lines it wrote
\* (all of them when it wrote fewer).
C9_ExitCodeDecides ==
    \A w \in Started :
        worker[w].fin > 0 =>
            /\ worker[w].success =>
                  (worker[w].process = "exited" /\ worker[w].returncode = 0)
            /\ (worker[w].process = "exited" /\ worker[w].returncode # 0
                /\ ~worker[w].cancelled) =>
                  /\ ~worker[w].success
                  /\ worker[w].message.code = worker[w].returncode
                  /\ worker[w].message.tail =
                        LastN(worker[w].produced, Min(TailSize, Len(worker[w].produced)))

C9_Witness ==
    \E w \in Started :
        /\ worker[w].fin > 0
        /\ worker[w].returncode = 1
        /\ ~worker[w].cancelled
        /\ Len(worker[w].produced) > TailSize
        /\ Len(worker[w].message.tail) = TailSize

C11_ProgressWhileRunning ==
    \A w \in Started :
        \A p \in worker[w].reports :
            /\ p.process = "running" =>
                  /\ worker[w].duration > 0
                  /\ p.val = IF (p.current_time * 90) \div worker[w].duration + 10 < 99
                             THEN (p.current_time * 90) \div worker[w].duration + 10
                             ELSE 99
                  /\ p.val >= 10 /\ p.val <= 99
            /\ p.val = 100 =>
                  /\ p.process = "exited" /\ p.returncode = 0
                  /\ worker[w].fin = 1 /\ worker[w].success /\ ~worker[w].cancelled

C11_Witness ==
    \E w \in Started :
        /\ \E p \in worker[w].reports : p.process = "running" /\ p.val = 55
        /\ \E p \in worker[w].reports : p.process = "running" /\ p.val = 99
        /\ \E p \in worker[w].reports : p.val = 100

\* C12: with an encoder binary configured and no acceleration method found,
\* create_conversion_job returns a worker for every job: no handler that
\* launches jobs has had a job refused, whether the detector was set up by
\* the startup timer or by the first job creation.
C12_CpuOnlyCreatesWorker ==
    (ffmpeg_path # "" /\ ~hw_accel) => last.rejected = 0

\* C13: a job whose probe failed or timed out never has an encoder process,
\* and its terminal event is Failed with the analysis-failure message.
C13_ProbeFailureAborts ==
    \A w \in Started :
        worker[w].probe \in {"no output", "timeout", "empty object"} =>
            /\ worker[w].process = "None"
            /\ worker[w].fin = 1
            /\ ~worker[w].success
            /\ worker[w].message = Msg("Analysis failed")

\* C14: when start_conversion returns with q jobs queued before it, exactly
\* min(N, q) jobs have been launched and are in the active set; any other
\* launch happens in the handler of a terminal event.
C14_StartLaunchesMinNq ==
    /\ HandlerDone("start") =>
          /\ Cardinality(last.launched) = Min(MaxParallel, Len(last.queue))
          /\ Len(active_conversions) = Min(MaxParallel, Len(last.queue))
    /\ last.launched # {} => last.op \in {"start", "finished"}

\* C15: jobs are launched in the order they were queued.  A handler that
\* launches jobs launches the head of the queue it found, in queue order, and
\* leaves the rest queued (workers are numbered in the order their threads
\* are started); add_files puts a file behind everything already queued.
C15_LaunchedPrefix ==
    (gui.pc = "idle" /\ last.launched # {}) =>
        LET first == CHOOSE w \in last.launched : \A v \in last.launched : w <= v
            k == Cardinality(last.launched)
        IN /\ last.launched = first .. (first + k - 1)
           /\ \A w \in last.launched : worker[w].input = last.queue[w - first + 1]
           /\ conversion_queue = SubSeq(last.queue, k + 1, Len(last.queue))

C15_AddAtEnd ==
    (last'.op = "add" /\ conversion_queue' # conversion_queue) =>
        \E file \in Paths : conversion_queue' = Append(conversion_queue, file)

C15_FifoLaunch == [](last.rejected = 0 => C15_LaunchedPrefix) /\ [][C15_AddAtEnd]_vars

C15_Witness ==
    /\ HandlerDone("finished")
    /\ last.launched = {2}
    /\ worker[1].input = "b" /\ worker[2].input = "a"

ActiveKeys == {active_conversions[i].key : i \in 1 .. Len(active_conversions)}
Recorded == Cardinality(DOMAIN progress_values)

\* C16 as claimed: after the handler of a progress event the value on the
\* progress bar is the arithmetic mean of the recorded values, all of which
\* belong to active jobs, and lies within 0 .. 100.
C16_ExactMean ==
    (HandlerDone("progress") /\ Recorded > 0) =>
        /\ DOMAIN progress_values \subseteq ActiveKeys
        /\ progress_bar * Recorded = SumValues(progress_values, DOMAIN progress_values)
        /\ progress_bar >= 0 /\ progress_bar <= 100

\* C16 as amended: after the handler of a progress event every recorded value
\* belongs to an active job, and when at least one value is recorded the
\* progress bar shows their arithmetic mean truncated to an integer, within
\* 0 .. 100.
C16_TruncatedMean ==
    HandlerDone("progress") =>
        /\ DOMAIN progress_values \subseteq ActiveKeys
        /\ Recorded > 0 =>
              /\ progress_bar * Recorded <= SumValues(progress_values, DOMAIN progress_values)
              /\ SumValues(progress_values, DOMAIN progress_values) < (progress_bar + 1) * Recorded
        /\ progress_bar >= 0 /\ progress_bar <= 100

C16_Witness ==
    /\ HandlerDone("progress")
    /\ Recorded = 2
    /\ SumValues(progress_values, DOMAIN progress_values) % 2 = 1

AllowedVideo(format_name) == Elems(Formats[format_name].supported_video_codecs)
AllowedAudio(format_name) == Elems(Formats[format_name].supported_audio_codecs)

\* C17 as claimed: for every container and requested pair the pair returned by
\* get_fallback_codec has its video codec in the container's allowed video set
\* and its audio codec in the allowed audio set; for an unknown container it
\* is (h264, aac).
C17_FallbackInAllowedSets ==
    synth.pc = "answered" =>
        IF Known(synth.output_ext)
        THEN /\ synth.pair[1] \in AllowedVideo(synth.output_ext)
             /\ synth.pair[2] \in AllowedAudio(synth.output_ext)
        ELSE synth.pair = << "h264", "aac" >>

\* C17 as amended: the returned audio codec is in the container's allowed
\* audio set; the returned video codec is in the allowed video set when that
\* set is not empty, and is the requested one when it is empty (audio-only
\* containers); for an unknown container the pair is (libx264, aac).
C17_FallbackInNonEmptySets ==
    synth.pc = "answered" =>
        IF Known(synth.output_ext)
        THEN /\ synth.pair[2] \in AllowedAudio(synth.output_ext)
             /\ IF AllowedVideo(synth.output_ext) # {}
                THEN synth.pair[1] \in AllowedVideo(synth.output_ext)
                ELSE synth.pair[1] = synth.job_config.video_codec
        ELSE synth.pair = << "libx264", "aac" >>

C17_Witness ==
    /\ synth.pc = "answered"
    /\ synth.output_ext = "webm"
    /\ synth.job_config.video_codec = "h264" /\ synth.job_config.audio_codec = "aac"
    /\ synth.pair = << "vp8", "vorbis" >>

HasOption(command, opt) == \E i \in 1 .. Len(command) : command[i].opt = opt

\* C18: after a command was synthesized for a known container, the video
\* codec behind its -c:v option and the audio codec behind its -c:a option are
\* in the container's allowed sets, on every path: re-encoding, encoder
\* overrides and stream copy.
C18_CodecsInAllowedSets ==
    (synth.pc \in {"built", "rebuilt"} /\ Known(synth.output_ext)) =>
        /\ HasOption(synth.command, "-c:v") =>
              synth.video_used \in AllowedVideo(synth.output_ext)
        /\ HasOption(synth.command, "-c:a") =>
              synth.audio_used \in AllowedAudio(synth.output_ext)

\* C19: command synthesis leaves the worker's job_config as it was given,
\* also when a fallback rewrote video_codec and audio_codec of the working
\* config, and a second build gives the same argument list as the first.
C19_JobConfigUntouched ==
    /\ synth.pc \in {"built", "rebuilt"} => synth.job_config = synth.given
    /\ synth.pc = "rebuilt" => synth.again = synth.command

C19_Witness ==
    /\ synth.pc = "rebuilt"
    /\ synth.config.video_codec # synth.given.video_codec
    /\ synth.config.audio_codec # synth.given.audio_codec
    /\ synth.job_config = synth.given

OptionOf(command, opt) ==
    command[CHOOSE i \in 1 .. Len(command) : command[i].opt = opt]
TargetSizeBuilt ==
    /\ synth.pc \in {"built", "rebuilt"}
    /\ synth.given.encoding_mode = "target_size"
    /\ ~synth.given.video_copy
FlooredFormula ==
    LET duration == IF synth.input_info.duration < 1 THEN 1 ELSE synth.input_info.duration
        audioKbps == ExtractAudioBitrateKbps(synth.given.audio_bitrate)
        floor == (synth.given.target_size_mb * 8000 - audioKbps * duration) \div duration
    IN IF floor < 300 THEN 300 ELSE floor
Scenario50Mb120s128k ==
    /\ synth.given.target_size_mb = 50
    /\ synth.input_info.duration = 120
    /\ synth.given.audio_bitrate = Bitrate("k", 128)

\* C20 as stated: in target_size mode the emitted -b:v is
\* max(300, floor((targetSizeMB*8000 - audioKbps*duration)/duration)) kbps with
\* the duration floored at 1 second, and for 50 MB, 120 s and 128k it is
\* 3204 kbps.
C20_TargetBitrate3204 ==
    TargetSizeBuilt =>
        /\ HasOption(synth.command, "-b:v")
        /\ OptionOf(synth.command, "-b:v").arg = "k"
        /\ OptionOf(synth.command, "-b:v").n = FlooredFormula
        /\ Scenario50Mb120s128k => OptionOf(synth.command, "-b:v").n = 3204

\* C20 amended: the same formula for every target size, duration and audio
\* bitrate; for 50 MB, 120 s and 128k the value is 3205 kbps.
C20_TargetBitrate3205 ==
    TargetSizeBuilt =>
        /\ HasOption(synth.command, "-b:v")
        /\ OptionOf(synth.command, "-b:v").arg = "k"
        /\ OptionOf(synth.command, "-b:v").n = FlooredFormula
        /\ Scenario50Mb120s128k => OptionOf(synth.command, "-b:v").n = 3205

C20_Witness ==
    /\ TargetSizeBuilt
    /\ Scenario50Mb120s128k
    /\ OptionOf(synth.command, "-b:v").n = 3205

\* C21: the target-size video bitrate is never below 300 kbps, whatever the
\* target size, the duration (0 included) and the audio bitrate, and for a
\* fixed duration and audio bitrate a larger target size never gives a
\* smaller bitrate.
C21_FloorAndMonotone ==
    TargetSizeBuilt =>
        /\ OptionOf(synth.command, "-b:v").n >= 300
        /\ \A larger \in TargetSizes :
              larger >= synth.given.target_size_mb =>
                  TargetVideoKbps(larger, synth.input_info.duration,
                                  ExtractAudioBitrateKbps(synth.given.audio_bitrate))
                      >= OptionOf(synth.command, "-b:v").n

C21_Witness ==
    /\ TargetSizeBuilt
    /\ synth.input_info.duration = 0
    /\ OptionOf(synth.command, "-b:v").n > 300
    /\ \E larger \in TargetSizes :
          TargetVideoKbps(larger, synth.input_info.duration,
                          ExtractAudioBitrateKbps(synth.given.audio_bitrate))
              > OptionOf(synth.command, "-b:v").n

EncodedBuilt ==
    /\ synth.pc \in {"built", "rebuilt"}
    /\ HasOption(synth.command, "-c:v")
    /\ OptionOf(synth.command, "-c:v").arg # "copy"
GopModeOf(config) == IF config.gop_mode = "" THEN "half_fps" ELSE config.gop_mode

\* C22: for every source frame rate > 0 and every GOP configuration the
\* resolved GOP size, the value of -g, is never below 1; in the modes
\* half_fps, same_fps and double_fps it is the rate ratio rounded to the
\* nearest whole number, and half_fps at 30 fps gives 15.
C22_GopAtLeastOne ==
    (EncodedBuilt /\ synth.input_info.fps > 0) =>
        /\ HasOption(synth.command, "-g") => OptionOf(synth.command, "-g").n >= 1
        /\ GopModeOf(synth.given) \in {"half_fps", "same_fps", "double_fps"} =>
              HasOption(synth.command, "-g")
        /\ GopModeOf(synth.given) = "half_fps" =>
              /\ 2 * OptionOf(synth.command, "-g").n - synth.input_info.fps \in {-1, 0, 1}
              /\ synth.input_info.fps = 30 => OptionOf(synth.command, "-g").n = 15
        /\ GopModeOf(synth.given) = "same_fps" =>
              OptionOf(synth.command, "-g").n = synth.input_info.fps
        /\ GopModeOf(synth.given) = "double_fps" =>
              OptionOf(synth.command, "-g").n = 2 * synth.input_info.fps

\* The catalog family of a canonical codec: H.265 is listed as hevc.
FamilyOf(codec) == IF codec = "h265" THEN "hevc" ELSE codec
FoundFor(hw, codec) ==
    IF FamilyOf(codec) \in Families THEN hw.available_encoders[FamilyOf(codec)] ELSE {}
\* The hardware suffixes an acceleration method takes, most preferred first.
Preference(best_acceleration) ==
    CASE best_acceleration = "cuda" -> << "nvenc", "vaapi" >>
      [] best_acceleration = "qsv" -> << "qsv", "vaapi" >>
      [] best_acceleration = "videotoolbox" -> << "videotoolbox", "vaapi" >>
      [] best_acceleration = "vulkan" -> << "vulkan", "vaapi" >>
      [] best_acceleration \in {"d3d11va", "dxva2"} -> << "amf", "qsv", "nvenc", "vaapi" >>
      [] best_acceleration = "opencl" -> << "nvenc", "qsv", "amf", "vaapi" >>
      [] OTHER -> << >>
Matching(best_acceleration, found) ==
    {i \in 1 .. Len(Preference(best_acceleration)) : Preference(best_acceleration)[i] \in found}
Preferred(best_acceleration, found) ==
    Preference(best_acceleration)[CHOOSE i \in Matching(best_acceleration, found) :
                                     \A j \in Matching(best_acceleration, found) : i <= j]

\* C23: for every hardware profile and every canonical codec, get_encoder
\* returns the hardware encoder of the codec's family with the suffix the
\* acceleration method prefers (amf before qsv before nvenc for d3d11va and
\* dxva2) whenever the catalog lists such an encoder for the family, and the
\* CPU fallback unchanged otherwise.
C23_HardwareEncoderChosen ==
    synth.pc = "picked" =>
        IF Matching(synth.hw.best_acceleration, FoundFor(synth.hw, synth.codec)) = {}
        THEN synth.encoder = DefaultVideoEncoder(synth.codec)
        ELSE synth.encoder =
                 HwEncoderName(FamilyOf(synth.codec),
                               Preferred(synth.hw.best_acceleration,
                                         FoundFor(synth.hw, synth.codec)))

HardwareEncoders == {HwEncoderName(f, x) : f \in Families, x \in Suffixes}

\* C24: whenever the selected video encoder is a hardware encoder (nvenc, qsv,
\* amf, vaapi, videotoolbox, vulkan) the command has no -tune flag, whatever
\* tune the job requests.
C24_NoTuneForHardware ==
    (EncodedBuilt /\ OptionOf(synth.command, "-c:v").arg \in HardwareEncoders) =>
        ~HasOption(synth.command, "-tune")

\* C25: every command for an MP4 output whose config gives no movflags has
\* -movflags +faststart, on every synthesis path: re-encode, video stream
\* copy, any encoding mode.
C25_FaststartForMp4 ==
    (/\ synth.pc \in {"built", "rebuilt"}
     /\ synth.output_ext = "mp4"
     /\ synth.given.movflags = "") =>
        /\ HasOption(synth.command, "-movflags")
        /\ OptionOf(synth.command, "-movflags").arg = "+faststart"

BuiltCommand == synth.pc \in {"built", "rebuilt"}
Occurrences(command, opt) == {i \in 1 .. Len(command) : command[i].opt = opt}
\* The arguments of the command from position i on, by name
Ending(command, i) == [k \in 1 .. Len(command) - i + 1 |-> command[i + k - 1].opt]
TrimFlags ==
    (IF synth.given.start_time # "" THEN << "-ss" >> ELSE << >>)
    \o (IF synth.given.duration # "" THEN << "-t" >> ELSE << >>)
\* From the first trim flag, or the thread count without one, to the end
FirstTrailing ==
    CHOOSE i \in Occurrences(synth.command, "-ss") \cup Occurrences(synth.command, "-t")
                 \cup Occurrences(synth.command, "-threads") :
        \A j \in Occurrences(synth.command, "-ss") \cup Occurrences(synth.command, "-t")
                 \cup Occurrences(synth.command, "-threads") : i <= j

\* C26 as stated: every command ends with the trim flags given (start offset,
\* then duration), the thread count and the output path, in that order, the
\* output path last and nothing else after the trim and thread flags.
C26_TrailingNothingElse ==
    BuiltCommand =>
        Ending(synth.command, FirstTrailing) = TrimFlags \o << "-threads", "output_file" >>

\* C26 amended: every command ends with the trim flags given (start offset,
\* then duration), the thread count, the three fixed logging arguments and the
\* output path, in that order, the output path last; the trim flags carry the
\* values of the job.
C26_TrailingOrder ==
    BuiltCommand =>
        /\ Ending(synth.command, FirstTrailing) =
              TrimFlags \o << "-threads", "-hide_banner", "-loglevel", "-stats",
                              "output_file" >>
        /\ synth.command[Len(synth.command)].opt = "output_file"
        /\ synth.given.start_time # "" =>
              OptionOf(synth.command, "-ss").arg = synth.given.start_time
        /\ synth.given.duration # "" =>
              OptionOf(synth.command, "-t").arg = synth.given.duration

C26_Witness ==
    /\ BuiltCommand
    /\ synth.given.start_time # ""
    /\ synth.given.duration # ""
    /\ Ending(synth.command, Len(synth.command) - 6) =
          << "-ss", "-t", "-threads", "-hide_banner", "-loglevel", "-stats", "output_file" >>

\* The executors that were started and have not emitted finished yet
Unfinished == {w \in Workers : worker[w].pc # "none" /\ worker[w].fin = 0}

\* C27: the number of job executors that were started and have not emitted
\* their terminal event never exceeds N, also when the same input path is
\* queued more than once.
C27_RunningAtMostN == Cardinality(Unfinished) <= MaxParallel

\* stop_conversion has returned and no handler of the window has run since
StopReturned == last.op = "stop" /\ gui.pc = "idle"

\* C28: after stop_conversion has returned, the delivery of a terminal event
\* of a stopped job, a success that raced with the stop included, launches no
\* job, also when the queue is not empty.
C28_NoLaunchAfterStop ==
    [][(StopReturned /\ last'.op = "finished") => last'.launched = {}]_vars

\* A handler that runs fill_conversion_slots has returned
Filled == gui.pc = "idle" /\ last.op \in {"start", "finished"}

\* The jobs the handler took from the queue
Popped == Len(last.queue) - Len(conversion_queue)

\* C29: every job that process_next_in_queue pops from the queue is handed to
\* a started executor that was entered in the active set: a handler takes as
\* many jobs from the queue as it starts executors.
C29_NoJobLost ==
    Filled => /\ Popped = Cardinality(last.launched)
              /\ \A w \in last.launched : worker[w].pc # "none"

\* C30: in every state of the scheduler the keys of the progress table are
\* keys of the active set: progress is recorded for active jobs only, and an
\* entry is dropped when its job leaves the active set.
C30_ProgressKeysActive == DOMAIN progress_values \subseteq ActiveKeys

\* A job with recorded progress has left the active set by its terminal event
\* while another job with recorded progress is still active.
C30_Witness ==
    /\ last.op = "finished"
    /\ last.w \in last.removed
    /\ worker[last.w].reports # {}
    /\ worker[last.w].input \notin DOMAIN progress_values
    /\ DOMAIN progress_values # {}
====
